---- MODULE Spec2Model ----
(***************************************************************************)
(* Model of app.py of the book recommender: the lookup function            *)
(* recommend(book_name, n) over the three tables loaded at start-up        *)
(* (pt.index, similarity_scores, books), and the session state of the      *)
(* page (selected_book, the search box, the three kinds of button).        *)
(*                                                                         *)
(* Strings are sequences of code points (32 = " ", 65 = "A", 97 = "a",     *)
(* 98 = "b"); positions are 0-based as in the code, so position i of a     *)
(* table is element i + 1 of the sequence that models it.  Similarity      *)
(* scores are integers: the code only compares them and copies them.       *)
(***************************************************************************)
EXTENDS Integers, Sequences, FiniteSets, TLC

VARIABLES pt_index, similarity_scores, books,
          book_name, n, outcome, recs, idx, sim_scores, reads,
          selected_book, search_input, rec_area, last_press

tables  == <<pt_index, similarity_scores, books>>
call    == <<book_name, n, outcome, recs, idx, sim_scores, reads>>
session == <<selected_book, search_input, rec_area, last_press>>
vars    == <<pt_index, similarity_scores, books,
             book_name, n, outcome, recs, idx, sim_scores, reads,
             selected_book, search_input, rec_area, last_press>>

----------------------------------------------------------------------------
(* Bounds of the model. *)

\* longest text a user enters
MaxLen == 2
\* largest result count asked of recommend
MaxN == 3
\* similarity scores are 0..MaxScore
MaxScore == 2

(* Program constants. *)

\* cutoff=0.55 of get_close_matches, in hundredths
CUTOFF == 55
\* n=5, the default result count and the one the page asks for
DEFAULT_N == 5

\* None of Python: a value that is no string (code points are >= 0)
None == << -1 >>

----------------------------------------------------------------------------
(* Strings. *)

Min(x, y) == IF x <= y THEN x ELSE y
Max(x, y) == IF x >= y THEN x ELSE y

\* the characters str.isspace() accepts (ASCII)
Whitespace == {9, 10, 11, 12, 13, 28, 29, 30, 31, 32}

\* str.lower() on one ASCII character
LowerChar(c) == IF c \in 65..90 THEN c + 32 ELSE c

\* str.lower()
lower(s) == [i \in 1..Len(s) |-> LowerChar(s[i])]

RECURSIVE lstrip(_)
lstrip(s) == IF s # <<>> /\ Head(s) \in Whitespace THEN lstrip(Tail(s)) ELSE s

RECURSIVE rstrip(_)
rstrip(s) == IF s # <<>> /\ s[Len(s)] \in Whitespace
             THEN rstrip(SubSeq(s, 1, Len(s) - 1)) ELSE s

\* str.strip()
strip(s) == rstrip(lstrip(s))

\* a < b on Python strings (by code point, a proper prefix is smaller)
RECURSIVE StrLess(_, _)
StrLess(a, b) ==
    IF b = <<>> THEN FALSE
    ELSE IF a = <<>> THEN TRUE
    ELSE IF Head(a) # Head(b) THEN Head(a) < Head(b)
    ELSE StrLess(Tail(a), Tail(b))

----------------------------------------------------------------------------
(* difflib: SequenceMatcher(a = possibility, b = word).ratio() and          *)
(* get_close_matches(word, possibilities, n=1, cutoff).  No junk: isjunk is *)
(* None and the autojunk heuristic needs a string of 200 characters.        *)

\* length of the common run of a from i and b from j
RECURSIVE RunLen(_, _, _, _)
RunLen(a, b, i, j) ==
    IF i > Len(a) \/ j > Len(b) THEN 0
    ELSE IF a[i] # b[j] THEN 0
    ELSE 1 + RunLen(a, b, i + 1, j + 1)

\* the best of the blocks whose sizes are k[i, j]: the longest, of those
\* the one that starts earliest in a, of those the one earliest in b
longest(k) ==
    LET Better(p, q) == \/ k[p] > k[q]
                        \/ k[p] = k[q] /\ p[1] < q[1]
                        \/ k[p] = k[q] /\ p[1] = q[1] /\ p[2] < q[2]
    IN  CHOOSE p \in DOMAIN k : \A q \in (DOMAIN k) \ {p} : Better(p, q)

\* find_longest_match(0, len(a), 0, len(b)) for non-empty a and b
find_longest_match(a, b) ==
    longest([p \in (1..Len(a)) \X (1..Len(b)) |-> RunLen(a, b, p[1], p[2])])

\* the total size of get_matching_blocks(): the longest block, then the
\* same to the left of it and to the right of it
RECURSIVE matches(_, _)
around(a, b, p) ==
    LET size == RunLen(a, b, p[1], p[2])
    IN  IF size = 0 THEN 0
        ELSE size
             + matches(SubSeq(a, 1, p[1] - 1), SubSeq(b, 1, p[2] - 1))
             + matches(SubSeq(a, p[1] + size, Len(a)), SubSeq(b, p[2] + size, Len(b)))

matches(a, b) ==
    IF a = <<>> \/ b = <<>> THEN 0 ELSE around(a, b, find_longest_match(a, b))

\* ratio() = 2.0 * matches / (len(a) + len(b)), kept as a fraction
ratio(a, b) == [num |-> 2 * matches(a, b), den |-> Len(a) + Len(b)]

\* ratio() >= cutoff; a ratio of two empty strings is 1.0
RatioAtLeast(r, pct) == IF r.den = 0 THEN TRUE ELSE 100 * r.num >= pct * r.den

\* r < s on ratios of non-empty strings
RatioLess(r, s) == r.num * s.den < s.num * r.den

\* nlargest(1, result): of the possibilities whose ratio r reaches the
\* cutoff, the one with the largest (ratio, string), as a list
nlargest(r, cutoff) ==
    LET ok == {x \in DOMAIN r : RatioAtLeast(r[x], cutoff)}
        Beats(x, y) == \/ RatioLess(r[y], r[x])
                       \/ ~RatioLess(r[x], r[y]) /\ StrLess(y, x)
    IN  IF ok = {} THEN <<>>
        ELSE << CHOOSE x \in ok : \A y \in ok \ {x} : Beats(x, y) >>

\* get_close_matches with the cutoff at one half
get_close_matches_half(word, possibilities, cutoff) ==
    nlargest([x \in possibilities |-> ratio(x, word)], 50)

\* get_close_matches(word, possibilities, n=1, cutoff)
get_close_matches(word, possibilities, cutoff) ==
    nlargest([x \in possibilities |-> ratio(x, word)], cutoff)

----------------------------------------------------------------------------
(* recommend(book_name, n), lines 33-69, over the module-level tables.     *)

\* {title.lower(): title for title in pt.index}: a later title replaces an
\* earlier one with the same lowercased text
title_map(index) ==
    [key \in {lower(index[i]) : i \in 1..Len(index)} |->
        index[CHOOSE i \in 1..Len(index) :
                 /\ lower(index[i]) = key
                 /\ \A j \in (i + 1)..Len(index) : lower(index[j]) # key]]

\* np.where(pt.index == matched_title)[0]: the positions of the title
where(index, title) == {i \in 0..(Len(index) - 1) : index[i + 1] = title}

\* the pairs numbered from 1, as enumerate(row, 1) gives them
enumerate_from_one(row) == [i \in 1..Len(row) |-> <<i, row[i]>>]

\* list(enumerate(row)): the pairs (position, score)
enumerate(row) == [i \in 1..Len(row) |-> <<i - 1, row[i]>>]

\* a sort step that puts x in front of the pairs of its own score, as a
\* sort that is not stable may
InsertByScoreUnstable(out, x) ==
    LET p == Cardinality({j \in 1..Len(out) : out[j][2] > x[2]})
    IN  SubSeq(out, 1, p) \o <<x>> \o SubSeq(out, p + 1, Len(out))

\* one step of the stable sort: x goes behind every pair whose score is at
\* least its own
InsertByScore(out, x) ==
    LET p == Cardinality({j \in 1..Len(out) : out[j][2] >= x[2]})
    IN  SubSeq(out, 1, p) \o <<x>> \o SubSeq(out, p + 1, Len(out))

\* sorted(pairs, key=lambda x: x[1], reverse=True): by score descending, and
\* stable, so pairs of equal score keep their order
RECURSIVE sorted(_)
sorted(pairs) ==
    IF pairs = <<>> THEN <<>>
    ELSE InsertByScore(sorted(SubSeq(pairs, 1, Len(pairs) - 1)), pairs[Len(pairs)])

\* s[lo:hi] for lo, hi >= 0
slice(s, lo, hi) == SubSeq(s, lo + 1, Min(hi, Len(s)))

\* books[books["Book-Title"] == title].drop_duplicates("Book-Title"): the
\* first row of the title, if any
lookup(title) ==
    LET rows == SelectSeq(books, LAMBDA r : r.Book_Title = title)
    IN  IF rows = <<>> THEN <<>> ELSE <<rows[1]>>

\* the loop with break in the place of continue: the first title without a
\* row in books ends it
RECURSIVE collect_break(_, _)
collect_break(pairs, acc) ==
    IF pairs = <<>> THEN [outcome |-> "returned", recs |-> acc]
    ELSE LET i     == Head(pairs)[1]
             score == Head(pairs)[2]
         IN  IF i >= Len(pt_index) THEN [outcome |-> "raised", recs |-> <<>>]
             ELSE LET row == lookup(pt_index[i + 1])
                  IN  IF row = <<>> THEN [outcome |-> "returned", recs |-> acc]
                      ELSE collect_break(Tail(pairs),
                                   Append(acc, [title  |-> row[1].Book_Title,
                                                author |-> row[1].Book_Author,
                                                image  |-> row[1].Image_URL_M,
                                                score  |-> score]))

\* the loop of lines 53-68 over the pairs taken: pt.index[i] is outside the
\* try and raises IndexError for a position past the index; .iloc[0] on no
\* row raises IndexError inside the try, and the pair is skipped
RECURSIVE collect(_, _)
collect(pairs, acc) ==
    IF pairs = <<>> THEN [outcome |-> "returned", recs |-> acc]
    ELSE LET i     == Head(pairs)[1]
             score == Head(pairs)[2]
         IN  IF i >= Len(pt_index) THEN [outcome |-> "raised", recs |-> <<>>]
             ELSE LET row == lookup(pt_index[i + 1])
                  IN  IF row = <<>> THEN collect(Tail(pairs), acc)
                      ELSE collect(Tail(pairs),
                                   Append(acc, [title  |-> row[1].Book_Title,
                                                author |-> row[1].Book_Author,
                                                image  |-> row[1].Image_URL_M,
                                                score  |-> score]))

\* sorted(...)[:n]: the first pair kept
take_no_drop(pairs, k) == slice(sorted(pairs), 0, k)

\* sorted(...)[1 : n + 1]: the sorted pairs without the first, n of them
take(pairs, k) == slice(sorted(pairs), 1, k + 1)

\* the test of line 35 without its strip()
blank_unstripped(name) == name = <<>>

\* is the query empty or blank (line 35)
blank(name) == name = <<>> \/ strip(name) = <<>>

\* what a call leaves: how it ended, the value returned, and its locals (idx
\* is -1 and sim_scores empty when the call ended before setting them;
\* reads holds which of pt.index and similarity_scores the call read)
Ended(how, out, ix, ss, rd) ==
    [outcome |-> how, recs |-> out, idx |-> ix, sim_scores |-> ss, reads |-> rd]

recommend(name, k) ==
    IF blank(name) THEN Ended("returned", <<>>, -1, <<>>, {})
    ELSE
    LET word    == lower(strip(name))
        tm      == title_map(pt_index)
        found   == get_close_matches(word, DOMAIN tm, CUTOFF)
    IN  IF found = <<>> THEN Ended("returned", <<>>, -1, <<>>, {"pt"})
        ELSE
        LET matched_title == tm[found[1]]
            at            == where(pt_index, matched_title)
        IN  IF at = {} THEN Ended("returned", <<>>, -1, <<>>, {"pt"})
            ELSE
            LET ix == CHOOSE i \in at : \A j \in at : i <= j
            IN  \* similarity_scores[idx] raises IndexError past the last row
                IF ix >= Len(similarity_scores)
                THEN Ended("raised", <<>>, ix, <<>>, {"pt", "similarity_scores"})
                ELSE
                LET ss  == take(enumerate(similarity_scores[ix + 1]), k)
                    out == collect(ss, <<>>)
                IN  Ended(out.outcome, out.recs, ix, ss,
                          {"pt", "similarity_scores"})

----------------------------------------------------------------------------
(* The tables a process can load.                                          *)

\* titles: "Ab", "ab" (the same text once lowercased) and "ba"
TitlePool == { <<65, 98>>, <<97, 98>>, <<98, 97>> }

\* pt.index: distinct titles in any order
Indexes ==
    {s \in UNION {[1..m -> TitlePool] : m \in 0..Cardinality(TitlePool)} :
        \A i, j \in 1..Len(s) : i # j => s[i] # s[j]}

Scores == 0..MaxScore

\* the matrix of r rows whose row i is `row` turned i - 1 places to the
\* right: every row content occurs at every row position
Turned(r, row) ==
    [i \in 1..r |-> [j \in 1..Len(row) |-> row[((j - i) % Len(row)) + 1]]]

\* similarity_scores as the offline pipeline writes it for an index of m
\* titles: m x m, rows and columns in the order of the index
Matrices(m) == {Turned(m, row) : row \in [1..m -> Scores]}

\* similarity_scores of any pickle: m x m, or with the last row missing, or
\* with one column more than the index has titles
LoadedMatrices(m) ==
    UNION { {Turned(sh[1], row) : row \in [1..sh[2] -> Scores]} :
            sh \in {<<m, m>>, <<Max(m - 1, 0), m>>, <<m, m + 1>>} }

\* the catalogue all books are drawn from: "Ab" has two editions
AllBooks ==
    << [Book_Title |-> <<65, 98>>, Book_Author |-> "author 1", Image_URL_M |-> "image 1"],
       [Book_Title |-> <<65, 98>>, Book_Author |-> "author 2", Image_URL_M |-> "image 2"],
       [Book_Title |-> <<97, 98>>, Book_Author |-> "author 3", Image_URL_M |-> "image 3"],
       [Book_Title |-> <<98, 97>>, Book_Author |-> "author 4", Image_URL_M |-> "image 4"] >>

\* books: the catalogue restricted to some of the titles
Catalogues ==
    {SelectSeq(AllBooks, LAMBDA r : r.Book_Title \in keep) : keep \in SUBSET TitlePool}

\* the texts a caller passes: " ", "A" and "b" in any arrangement
Chars == {32, 65, 98}
Texts == UNION {[1..m -> Chars] : m \in 0..MaxLen}

----------------------------------------------------------------------------------------------------------------------------------------------
(* The lookup: tables are loaded, then recommend is called.  The tables    *)
(* never change, so one call per behaviour shows all a call can do.        *)

InitCall ==
    /\ book_name = None /\ n = 0 /\ outcome = "none" /\ recs = <<>>
    /\ idx = -1 /\ sim_scores = <<>> /\ reads = {}

\* the recommendation area of the page: the st.info line, or the heading
\* with the title and the books found
NoArea == [shown |-> FALSE, title |-> None, recs |-> <<>>]

InitSession ==
    /\ selected_book = None /\ search_input = <<>>
    /\ rec_area = NoArea /\ last_press = "none"

\* the tables of lines 13-15, the index and the matrix paired
Init ==
    /\ pt_index \in Indexes
    /\ similarity_scores \in Matrices(Len(pt_index))
    /\ books \in Catalogues
    /\ InitCall
    /\ InitSession

\* the tables of lines 13-15, whatever the pickles hold
InitLoaded ==
    /\ pt_index \in Indexes
    /\ similarity_scores \in LoadedMatrices(Len(pt_index))
    /\ books \in Catalogues
    /\ InitCall
    /\ InitSession

\* one call recommend(name, k)
Recommend(name, k) ==
    /\ outcome = "none"
    /\ \E r \in {recommend(name, k)} :
          /\ book_name' = name /\ n' = k
          /\ outcome' = r.outcome /\ recs' = r.recs
          /\ idx' = r.idx /\ sim_scores' = r.sim_scores /\ reads' = r.reads
    /\ UNCHANGED <<tables, session>>

Next == \E name \in Texts, k \in 0..MaxN : Recommend(name, k)

Spec == Init /\ [][Next]_vars

SpecLoaded == InitLoaded /\ [][Next]_vars

----------------------------------------------------------------------------
(* The page, lines 153-200 and 304-323: each press of a button runs its    *)
(* handler and then the script again, which draws the recommendation area  *)
(* from selected_book.                                                     *)

\* popular_df["Book-Title"], the titles of the Show Similar buttons
Top50 == << <<65, 98>>, <<98, 97>> >>

\* lines 185-200: the books of recommend(selected, n=5) under the heading
\* when a book is selected, the st.info line otherwise
render(selected) ==
    IF selected = None \/ selected = <<>> THEN NoArea
    ELSE [shown |-> TRUE, title |-> selected,
          recs |-> recommend(selected, DEFAULT_N).recs]

\* the text of the search box once the script has run again with this
\* selection: the box keeps what it holds, or a build of the page library
\* that keys a widget by its arguments draws a new box holding default_val
boxes(selected) == {search_input, IF selected = None THEN <<>> ELSE selected}

\* the script runs again after every event and draws the area anew
rerun ==
    /\ rec_area' = render(selected_book')
    /\ UNCHANGED <<tables, call>>

\* the user edits the search box
EditSearch(text) ==
    /\ search_input' = text
    /\ last_press' = "edit"
    /\ UNCHANGED selected_book
    /\ rerun

\* the Recommend button, lines 168-173
PressRecommend ==
    /\ IF search_input # <<>> /\ strip(search_input) # <<>>
       THEN /\ selected_book' = strip(search_input)
            /\ search_input' \in boxes(strip(search_input))
       ELSE \* st.warning
            /\ UNCHANGED <<selected_book, search_input>>
    /\ last_press' = "recommend"
    /\ rerun

\* a Clear that empties the box and leaves selected_book
clear_box_only ==
    /\ search_input' = <<>>
    /\ UNCHANGED selected_book
    /\ last_press' = "clear"
    /\ rerun

\* the Clear button: the callback clear_search, lines 174-177
clear_search ==
    /\ search_input' = <<>>
    /\ selected_book' = None
    /\ last_press' = "clear"
    /\ rerun

\* a Show Similar button of the Top 50 grid, lines 321-323
PressShowSimilar(i) ==
    /\ selected_book' = Top50[i]
    /\ search_input' \in boxes(Top50[i])
    /\ last_press' = "similar"
    /\ rerun

\* the page is served from one set of paired tables
InitPage ==
    /\ pt_index = << <<97, 98>>, <<98, 97>>, <<65, 98>> >>
    /\ similarity_scores = Turned(3, <<2, 1, 0>>)
    /\ books = AllBooks
    /\ InitCall
    /\ InitSession

NextPage ==
    \/ \E text \in Texts : EditSearch(text)
    \/ PressRecommend
    \/ clear_search
    \/ \E i \in 1..Len(Top50) : PressShowSimilar(i)

SpecPage == InitPage /\ [][NextPage]_vars

----------------------------------------------------------------------------
(* Properties.  What they say of a call is said of the state the call      *)
(* leaves: its arguments, how it ended, the value returned, its locals.    *)

Called   == outcome # "none"
Returned == outcome = "returned"

\* the position of a title in pt.index (titles are distinct)
PositionOf(title) == CHOOSE i \in 0..(Len(pt_index) - 1) : pt_index[i + 1] = title

\* the title at a position of pt.index
TitleAt(i) == pt_index[i + 1]

\* the row of the matched title, and the score of a position in it
Row == similarity_scores[idx + 1]
ScoreAt(i) == Row[i + 1]

\* the title has a row in books
HasRecord(title) == \E i \in 1..Len(books) : books[i].Book_Title = title

\* the query is empty or whitespace only
BlankText(text) == \A i \in 1..Len(text) : text[i] \in Whitespace

\* position p ranks before position q: a higher score, or the same score
\* and the earlier position
Before(p, q) == ScoreAt(p) > ScoreAt(q) \/ (ScoreAt(p) = ScoreAt(q) /\ p < q)

\* C1: when the query equals a title once trimmed and lowercased, no result
\* returned has the matched title.
C1_ExcludesMatchedTitle ==
    (/\ Returned
     /\ \E i \in 1..Len(pt_index) : lower(pt_index[i]) = lower(strip(book_name)))
    => \A j \in 1..Len(recs) : recs[j].title # TitleAt(idx)

\* C2: the results are in descending order of their score in the matched
\* row, and results of equal score are in ascending order of position.
C2_OrderedByScore ==
    Returned =>
        \A i, j \in 1..Len(recs) :
            i < j => Before(PositionOf(recs[i].title), PositionOf(recs[j].title))

\* two results of equal score, the earlier position first
C2_Witness ==
    /\ Returned /\ Len(recs) = 2
    /\ ScoreAt(PositionOf(recs[1].title)) = ScoreAt(PositionOf(recs[2].title))
    /\ PositionOf(recs[1].title) < PositionOf(recs[2].title)

\* C3: every call with n >= 0 returns a sequence of at most n results,
\* whatever the tables hold; with n = 0 it returns the empty sequence.
C3_AtMostN == Called => (Returned /\ Len(recs) <= n)

\* C4: the score of every result is the matrix value at (matched position,
\* position of the result's title).
C4_ScoreIsCell ==
    Returned =>
        \A i \in 1..Len(recs) :
            recs[i].score = similarity_scores[idx + 1][PositionOf(recs[i].title) + 1]

\* a result whose score differs from another cell of the row
C4_Witness ==
    /\ Returned /\ recs # <<>>
    /\ \E c \in 1..Len(Row) : Row[c] # recs[1].score

\* C5: no call ends by raising, whatever the tables hold.
C5_NeverRaises == outcome # "raised"

\* C6: the results are exactly the pairs taken from the sorted row (n of
\* them, or all there are behind the first) whose title has a row in books,
\* in the order taken: a pair without one is skipped and nothing replaces it.
C6_SkipsOnlyMissing ==
    (Called /\ idx >= 0) =>
        /\ Returned
        /\ Len(sim_scores) = Min(n, Len(Row) - 1)
        /\ LET kept == SelectSeq(sim_scores, LAMBDA p : HasRecord(TitleAt(p[1])))
           IN  /\ Len(recs) = Len(kept)
               /\ \A i \in 1..Len(kept) :
                     /\ recs[i].title = TitleAt(kept[i][1])
                     /\ recs[i].score = kept[i][2]

\* the first pair taken has no row in books, the second has and is returned
C6_Witness ==
    /\ Returned /\ Len(sim_scores) = 2 /\ Len(recs) = 1
    /\ ~HasRecord(TitleAt(sim_scores[1][1]))
    /\ recs[1].title = TitleAt(sim_scores[2][1])

\* C7: a call with an empty or whitespace-only query returns the empty
\* sequence and reads neither pt.index nor similarity_scores.
C7_BlankQueryEmpty ==
    (Called /\ BlankText(book_name)) => (Returned /\ recs = <<>> /\ reads = {})

\* a call with two spaces over a non-empty index
C7_Witness ==
    /\ Called /\ book_name = <<32, 32>> /\ pt_index # <<>> /\ n > 0

\* C8: when no lowercased title has a ratio of at least 0.55 (11/20) with
\* the normalized query the call returns the empty sequence; a non-empty
\* result has a title whose ratio is at least 0.55.
C8_BelowCutoffEmpty ==
    Called =>
        LET word == lower(strip(book_name))
            Reaches(t) == LET r == ratio(lower(t), word)
                          IN  20 * r.num >= 11 * r.den
            some == \E i \in 1..Len(pt_index) : Reaches(pt_index[i])
        IN  /\ ~some => (Returned /\ recs = <<>>)
            /\ recs # <<>> => some

\* a query that shares text with a title of a full catalogue, below the cutoff
C8_Witness ==
    /\ Called /\ ~BlankText(book_name) /\ n > 0 /\ Len(pt_index) > 1
    /\ \A i \in 1..Len(pt_index) : HasRecord(pt_index[i])
    /\ \A i \in 1..Len(pt_index) :
          LET r == ratio(lower(pt_index[i]), lower(strip(book_name)))
          IN  r.num > 0 /\ 20 * r.num < 11 * r.den

\* the matched title scores higher with itself than with any other
\* position of its row, and every other position has a title with a row in
\* books
SelfIsMax ==
    /\ idx >= 0 /\ idx < Len(similarity_scores) /\ idx < Len(Row)
    /\ \A p \in 0..(Len(Row) - 1) :
          p # idx => /\ ScoreAt(p) < ScoreAt(idx)
                     /\ p < Len(pt_index)
                     /\ HasRecord(TitleAt(p))

\* C9: under SelfIsMax the results are the n positions other than the
\* matched one that rank first (all of them when there are fewer than n),
\* in rank order: what filtering the matched position out would return.
C9_DropFirstIsFilterSelf ==
    (Called /\ SelfIsMax) =>
        LET others == {p \in 0..(Len(Row) - 1) : p # idx}
        IN  /\ Returned
            /\ Len(recs) = Min(n, Cardinality(others))
            /\ \A i \in 1..Len(recs) :
                  LET p == PositionOf(recs[i].title)
                  IN  /\ p \in others
                      /\ Cardinality({q \in others : Before(q, p)}) = i - 1

\* two results, the later position first because it scores higher
C9_Witness ==
    /\ Called /\ SelfIsMax /\ Len(recs) = 2
    /\ recs[1].score > recs[2].score
    /\ PositionOf(recs[1].title) > PositionOf(recs[2].title)

====
